---- MODULE Spec2Model ----
(***************************************************************************)
(* A state-machine model of the nrf-hal core:                              *)
(*   - the PPI channel interconnect (nrf-hal-common/src/ppi.rs),           *)
(*   - the SAADC DMA transfer engine (nrf-hal-common/src/saadc.rs),        *)
(*   - the UARTE stream (nrf52-hal-common/src/uarte_stream.rs).            *)
(* A 32-bit register that is used as a bit mask is represented by the set  *)
(* of the positions of its set bits (1 << n is {n}); a register that holds *)
(* an address is represented by the address as an integer.                 *)
(***************************************************************************)
EXTENDS Integers, Sequences, FiniteSets, TLC

(***************************************************************************)
(* Bounds of the model.                                                    *)
(***************************************************************************)
\* how many of the 32 channels the modelled application operates on
NumChannels == 2
\* how many buffers the modelled application owns
NumBuffers == 4
\* how many UarteStreamer values the modelled application builds
NumStreamers == 2
\* how many bytes a ring or a scratch buffer of the modelled application holds
\* at most when the stream is started
MaxBytes == 1
\* how many times the main loop of the modelled application reads the
\* temperature
MaxReads == 3

(***************************************************************************)
(* PPI: chip variants, channels, tokens.                                   *)
(***************************************************************************)
\* the chip variant the crate is built for: feature "51", and one build without
\* it (the cfg attributes of ppi.rs distinguish nothing else)
Variants == {"51", "52840"}

AllChannels == 0..31

\* ppi!(fixed: [ (ppi20, Ppi20, 20) .. (ppi31, Ppi31, 31) ])
Fixed == 20..31

\* a mutant of NotFixed: the cfg(not(feature = "51")) attributes are dropped
NotFixedIgnoringCfg(v) == 0..19

\* a mutant of NotFixed: NotFixed is implemented for the fixed channels too
NotFixedForEveryChannel(v) == 0..31

\* ppi!(not_fixed: [...]): the channels that implement NotFixed; ppi16..ppi19
\* carry #[cfg(not(feature = "51"))]
NotFixed(v) == IF v = "51" THEN 0..15 ELSE 0..19

\* the fields of Parts: one token type per not_fixed and per fixed entry
TokenChannels(v) == NotFixed(v) \cup Fixed

\* #[cfg(not(feature = "51"))] fn set_fork_task_endpoint
HasFork(v) == v # "51"

\* the channels the modelled application uses, in the order the bound adds them
ChannelOrder == <<3, 20, 31, 16, 0, 21>>

ModelChannels ==
    {ChannelOrder[i] : i \in 1..(IF NumChannels < Len(ChannelOrder)
                                  THEN NumChannels ELSE Len(ChannelOrder))}

\* the token the application may move into its interrupt handler
IrqCandidates == {20}

(***************************************************************************)
(* Addresses. Peripheral registers live at 0x4000_0000 and above, the RAM  *)
(* (and with it the stack) at 0x2000_0000.                                 *)
(***************************************************************************)
\* impl Event for crate::target::timer0::EVENTS_COMPARE (TIMER0 0x40008000 + 0x140)
timer0_EVENTS_COMPARE == 1073774912
\* impl Task for crate::target::gpiote::TASKS_OUT (GPIOTE 0x40006000 + 0x000)
gpiote_TASKS_OUT == 1073766400
\* impl Task for crate::target::saadc::TASKS_SAMPLE (SAADC 0x40007000 + 0x004)
saadc_TASKS_SAMPLE == 1073770500
\* impl Task for crate::target::saadc::TASKS_START (SAADC 0x40007000 + 0x000)
saadc_TASKS_START == 1073770496
\* impl Event for crate::target::saadc::EVENTS_END (SAADC 0x40007000 + 0x104)
saadc_EVENTS_END == 1073770756
\* impl Task for crate::target::radio::TASKS_TXEN (RADIO 0x40001000 + 0x000)
radio_TASKS_TXEN == 1073745920

\* the event registers the application passes to set_event_endpoint
Events == {timer0_EVENTS_COMPARE}
\* the events the hardware raises in the model
HwEvents == {timer0_EVENTS_COMPARE}
\* the task registers the application passes to set_task_endpoint
Tasks == {gpiote_TASKS_OUT}
\* the task registers the application passes to set_fork_task_endpoint
ForkTasks == {saadc_TASKS_SAMPLE}
\* every task register of the model
AllTasks == Tasks \cup ForkTasks \cup {radio_TASKS_TXEN}

RamBase == 2^29
\* the places on the stack where the parameter `self` of task_addr/event_addr may live
StackSlots == {RamBase + 65536 - 8, RamBase + 65536 - 16}

\* sealed::Task::task_addr: TaskAddr(&self as *const _ as u32). `self` is already
\* a reference to the register (its value is the register's address); `&self` is
\* a reference to that parameter, so the cast yields the address of the stack
\* slot that holds the parameter, not the address of the register.
task_addr(self, slot) == slot

\* sealed::Event::event_addr: EventAddr(&self as *const _ as u32), as task_addr
event_addr(self, slot) == slot

\* the preset routing of a fixed channel (here that of channel 20 of the nRF52:
\* TIMER0 COMPARE[0] enables the RADIO's transmitter); the ch[] register array
\* has no entry for it that the software could write
FixedEep(ch) == timer0_EVENTS_COMPARE
FixedTep(ch) == radio_TASKS_TXEN

(***************************************************************************)
(* State.                                                                  *)
(***************************************************************************)
VARIABLES
    variant,     \* the chip variant the crate is built for
    ppiBlock,    \* who holds the PPI register block: "app" or "consumed"
    tokens,      \* channel index -> number of tokens that exist for it
    irqTokens,   \* the tokens that were moved into the interrupt handler
    chen,        \* the CHEN bit mask: the set of enabled channels
    ch_eep,      \* channel -> CH[n].EEP
    ch_tep,      \* channel -> CH[n].TEP
    fork_tep,    \* channel -> FORK[n].TEP
    pending,     \* the register write the foreground has prepared, not yet stored
    wired,       \* channel -> the endpoints most recently passed to set_*_endpoint
    lastOp,      \* channel -> the last enable/disable issued on it
    preempted,   \* the interrupt handler ran between the foreground's last
                 \* building of a register value and its store
    fired,       \* the event the hardware raised in the last step (0: none)
    triggered    \* the tasks the interconnect triggered in that same step

VARIABLES
    saadcAt,     \* who holds the peripheral: "periph" (the application holds the
                 \* SAADC register block, no Saadc is constructed), "new" (inside
                 \* Saadc::new), "app" (the application holds the Saadc handle),
                 \* "transfer" or "lost"
    bufAt,       \* buffer -> who holds it: "app", "transfer", "pending", "call" or "lost"
    xfer,        \* the live Transfer: [live, rx_buffer, next_queued]
    appPc,       \* where the foreground is: "idle", or inside the poll loop of
                 \* "new", "wait", "exchange_transfer_wait" or "read"
    exchBuf,     \* the buffer of the PendingTransfer passed to exchange_transfer_wait
    regs,        \* the registers of the SAADC
    hw,          \* the state of the SAADC hardware itself
    curStarted,  \* the hardware has raised STARTED for the live Transfer's buffer
    ret,         \* what the last call returned
    trace,       \* the fences and register accesses of the call that is running,
                 \* or of the last call that ran, in program order
    nTransfers,  \* the number of Transfer values that hold the Saadc
    lastStep     \* the operation, or the hardware event, of the last step

saadcVars == <<saadcAt, bufAt, xfer, appPc, exchBuf, regs, hw, curStarted, ret,
               trace, nTransfers, lastStep>>

ppiVars == <<variant, ppiBlock, tokens, irqTokens, chen, ch_eep, ch_tep,
             fork_tep, pending, wired, lastOp, preempted, fired, triggered>>

VARIABLES
    stPc,        \* streamer -> the number of statements of rip_and_grip its
                 \* call has executed
    calls,       \* the calls of rip_and_grip that are running, innermost last
    partAt,      \* streamer -> part -> where it is: "streamer", "self", "local",
                 \* "context" (the local Context), "CONTEXT", "app" or "lost"
    CONTEXT,     \* static mut CONTEXT: 0 (None) or the streamer whose Context
                 \* it holds
    handler,     \* the address set_interrupt_handler was given ("none": unset)
    txRing,      \* streamer -> the number of bytes in its transmit ring
    txBuf,       \* streamer -> the number of bytes in its transmit scratch buffer
    rxBuf,       \* streamer -> the number of bytes in its receive scratch buffer
    rxRing,      \* streamer -> the number of bytes in its receive ring
    faulted,     \* an interrupt went to an address that is not code
    lastStream   \* the statement or handler of the last step of the stream

streamVars == <<stPc, calls, partAt, CONTEXT, handler, txRing, txBuf, rxBuf,
                rxRing, faulted, lastStream>>

VARIABLES
    tempPc,      \* where main is: "loop" (about to call read_temperature), "poll"
                 \* (inside its poll loop), "delay" or "write"
    nReads,      \* the number of calls of read_temperature so far
    tempRegs,    \* the registers of TEMP: [events_datardy, temp]
    tempHw,      \* the TEMP hardware: [run, of]: a measurement runs, and the call
                 \* whose START began it
    tempOf,      \* the call whose measurement produced the value in temp (0: none)
    tempRet,     \* what the last call of read_temperature returned
    lastTemp     \* the last step of main or of the TEMP hardware

tempVars == <<tempPc, nReads, tempRegs, tempHw, tempOf, tempRet, lastTemp>>

vars == <<ppiVars, saadcVars, streamVars, tempVars>>

NoWrite == [reg |-> "none", ch |-> 0, mask |-> {}, addr |-> 0, arg |-> 0]
NoWiring == [event |-> 0, task |-> 0, fork |-> 0]

InitPpiBlock ==
    /\ variant \in Variants
    /\ ppiBlock = "app"
    /\ tokens = [ch \in AllChannels |-> 0]
    /\ irqTokens = {}
    /\ fork_tep = [ch \in AllChannels |-> 0]
    /\ pending = NoWrite
    /\ wired = [ch \in AllChannels |-> NoWiring]
    /\ lastOp = [ch \in AllChannels |-> "none"]
    /\ preempted = FALSE
    /\ fired = 0
    /\ triggered = {}

InitPpi ==
    /\ InitPpiBlock
    /\ chen = {}
    /\ ch_eep = [ch \in AllChannels |-> IF ch \in Fixed THEN FixedEep(ch) ELSE 0]
    /\ ch_tep = [ch \in AllChannels |-> IF ch \in Fixed THEN FixedTep(ch) ELSE 0]

\* the channel the application uses to chain the transfers of the SAADC
ChainChannel == ChannelOrder[1]

\* the interconnect as an application that uses double buffering has set it up
\* in the registers of the PPI block: an enabled channel routes the SAADC's END
\* event to its START task, so that the hardware goes on with the next buffer
\* (enqueue_next_transfer: `the start-to-end shortcut is activated`)
InitPpiChained ==
    /\ InitPpiBlock
    /\ chen = {ChainChannel}
    /\ ch_eep = [ch \in AllChannels |-> IF ch \in Fixed THEN FixedEep(ch)
                                        ELSE IF ch = ChainChannel THEN saadc_EVENTS_END
                                        ELSE 0]
    /\ ch_tep = [ch \in AllChannels |-> IF ch \in Fixed THEN FixedTep(ch)
                                        ELSE IF ch = ChainChannel THEN saadc_TASKS_START
                                        ELSE 0]

(***************************************************************************)
(* PPI: the operations.                                                    *)
(***************************************************************************)
\* a step of the software: the hardware step's observation is over
NoHwStep == fired' = 0 /\ triggered' = {}

\* Parts::new(_regs: PPI) takes the register block by value
CanSplit == ppiBlock = "app"

\* Parts::new: one token per field of Parts
PartsNew ==
    /\ CanSplit
    /\ pending = NoWrite
    /\ ppiBlock' = "consumed"
    /\ tokens' = [ch \in AllChannels |->
                    tokens[ch] + (IF ch \in TokenChannels(variant) THEN 1 ELSE 0)]
    /\ NoHwStep
    /\ UNCHANGED <<saadcVars, streamVars, tempVars>>
    /\ UNCHANGED <<preempted, variant, irqTokens, chen, ch_eep, ch_tep, fork_tep, pending,
                   wired, lastOp>>

\* the foreground holds a token of channel ch
FgHolds(ch) == tokens[ch] >= 1 /\ ch \notin irqTokens

\* the application moves a token into its interrupt handler
GiveToIrq(ch) ==
    /\ pending = NoWrite
    /\ ch \in IrqCandidates
    /\ FgHolds(ch)
    /\ irqTokens' = irqTokens \cup {ch}
    /\ NoHwStep
    /\ UNCHANGED <<saadcVars, streamVars, tempVars>>
    /\ UNCHANGED <<preempted, variant, ppiBlock, tokens, chen, ch_eep, ch_tep, fork_tep,
                   pending, wired, lastOp>>

\* a mutant of EnableBits: read-modify-write of the enable mask
EnableBitsReadModifyWrite(ch) == chen \cup {ch}

\* Ppi::enable: w.bits(1 << P::CH)
EnableBits(ch) == {ch}

\* a mutant of DisableBits: the complement of the channel's bit
DisableBitsComplement(ch) == AllChannels \ {ch}

\* Ppi::disable: w.bits(1 << P::CH)
DisableBits(ch) == {ch}

\* Ppi::enable, up to the store: the value for CHENSET is built
EnableCall(ch) ==
    /\ pending = NoWrite
    /\ ch \in ModelChannels
    /\ FgHolds(ch)
    /\ pending' = [reg |-> "chenset", ch |-> ch, mask |-> EnableBits(ch),
                   addr |-> 0, arg |-> 0]
    /\ preempted' = FALSE
    /\ NoHwStep
    /\ UNCHANGED <<saadcVars, streamVars, tempVars>>
    /\ UNCHANGED <<variant, ppiBlock, tokens, irqTokens, chen, ch_eep, ch_tep,
                   fork_tep, wired, lastOp>>

\* Ppi::disable, up to the store: the value for CHENCLR is built
DisableCall(ch) ==
    /\ pending = NoWrite
    /\ ch \in ModelChannels
    /\ FgHolds(ch)
    /\ pending' = [reg |-> "chenclr", ch |-> ch, mask |-> DisableBits(ch),
                   addr |-> 0, arg |-> 0]
    /\ preempted' = FALSE
    /\ NoHwStep
    /\ UNCHANGED <<saadcVars, streamVars, tempVars>>
    /\ UNCHANGED <<variant, ppiBlock, tokens, irqTokens, chen, ch_eep, ch_tep,
                   fork_tep, wired, lastOp>>

\* CHENSET: writing 1 sets the bit, writing 0 has no effect
WriteChenset(cur, mask) == cur \cup mask

\* CHENCLR: writing 1 clears the bit, writing 0 has no effect
WriteChenclr(cur, mask) == cur \ mask

\* Ppi::enable: regs.chenset.write(..), the store
StoreChenset ==
    /\ pending.reg = "chenset"
    /\ chen' = WriteChenset(chen, pending.mask)
    /\ lastOp' = [lastOp EXCEPT ![pending.ch] = "enable"]
    /\ pending' = NoWrite
    /\ NoHwStep
    /\ UNCHANGED <<saadcVars, streamVars, tempVars>>
    /\ UNCHANGED <<preempted, variant, ppiBlock, tokens, irqTokens, ch_eep, ch_tep,
                   fork_tep, wired>>

\* Ppi::disable: regs.chenclr.write(..), the store
StoreChenclr ==
    /\ pending.reg = "chenclr"
    /\ chen' = WriteChenclr(chen, pending.mask)
    /\ lastOp' = [lastOp EXCEPT ![pending.ch] = "disable"]
    /\ pending' = NoWrite
    /\ NoHwStep
    /\ UNCHANGED <<saadcVars, streamVars, tempVars>>
    /\ UNCHANGED <<preempted, variant, ppiBlock, tokens, irqTokens, ch_eep, ch_tep,
                   fork_tep, wired>>

\* Ppi::enable in the interrupt handler, which the foreground cannot pre-empt
IrqEnable(ch) ==
    /\ ch \in irqTokens
    /\ chen' = WriteChenset(chen, EnableBits(ch))
    /\ lastOp' = [lastOp EXCEPT ![ch] = "enable"]
    /\ preempted' = (preempted \/ pending # NoWrite)
    /\ NoHwStep
    /\ UNCHANGED <<saadcVars, streamVars, tempVars>>
    /\ UNCHANGED <<variant, ppiBlock, tokens, irqTokens, ch_eep, ch_tep,
                   fork_tep, pending, wired>>

\* Ppi::disable in the interrupt handler
IrqDisable(ch) ==
    /\ ch \in irqTokens
    /\ chen' = WriteChenclr(chen, DisableBits(ch))
    /\ lastOp' = [lastOp EXCEPT ![ch] = "disable"]
    /\ preempted' = (preempted \/ pending # NoWrite)
    /\ NoHwStep
    /\ UNCHANGED <<saadcVars, streamVars, tempVars>>
    /\ UNCHANGED <<variant, ppiBlock, tokens, irqTokens, ch_eep, ch_tep,
                   fork_tep, pending, wired>>

\* ConfigurablePpi::set_task_endpoint, up to the store
SetTaskEndpointCall(ch, task, slot) ==
    /\ pending = NoWrite
    /\ ch \in ModelChannels \cap NotFixed(variant)
    /\ FgHolds(ch)
    /\ pending' = [reg |-> "ch.tep", ch |-> ch, mask |-> {},
                   addr |-> task_addr(task, slot), arg |-> task]
    /\ preempted' = FALSE
    /\ NoHwStep
    /\ UNCHANGED <<saadcVars, streamVars, tempVars>>
    /\ UNCHANGED <<variant, ppiBlock, tokens, irqTokens, chen, ch_eep, ch_tep,
                   fork_tep, wired, lastOp>>

\* ConfigurablePpi::set_event_endpoint, up to the store
SetEventEndpointCall(ch, event, slot) ==
    /\ pending = NoWrite
    /\ ch \in ModelChannels \cap NotFixed(variant)
    /\ FgHolds(ch)
    /\ pending' = [reg |-> "ch.eep", ch |-> ch, mask |-> {},
                   addr |-> event_addr(event, slot), arg |-> event]
    /\ preempted' = FALSE
    /\ NoHwStep
    /\ UNCHANGED <<saadcVars, streamVars, tempVars>>
    /\ UNCHANGED <<variant, ppiBlock, tokens, irqTokens, chen, ch_eep, ch_tep,
                   fork_tep, wired, lastOp>>

\* Ppi::set_fork_task_endpoint, up to the store
SetForkTaskEndpointCall(ch, task, slot) ==
    /\ pending = NoWrite
    /\ HasFork(variant)
    /\ ch \in ModelChannels
    /\ FgHolds(ch)
    /\ pending' = [reg |-> "fork.tep", ch |-> ch, mask |-> {},
                   addr |-> task_addr(task, slot), arg |-> task]
    /\ preempted' = FALSE
    /\ NoHwStep
    /\ UNCHANGED <<saadcVars, streamVars, tempVars>>
    /\ UNCHANGED <<variant, ppiBlock, tokens, irqTokens, chen, ch_eep, ch_tep,
                   fork_tep, wired, lastOp>>

\* an endpoint write that is not indexed by the channel
WriteEndpointEveryChannel(r, ch, addr) == [c \in DOMAIN r |-> addr]

\* regs.ch[P::CH].tep / regs.ch[P::CH].eep / regs.fork[P::CH].tep .write(..):
\* the register of the array that the channel's index selects is written
WriteEndpoint(r, ch, addr) == [r EXCEPT ![ch] = addr]

\* regs.ch[P::CH].tep.write(..), the store
StoreTep ==
    /\ pending.reg = "ch.tep"
    /\ ch_tep' = WriteEndpoint(ch_tep, pending.ch, pending.addr)
    /\ wired' = [wired EXCEPT ![pending.ch].task = pending.arg]
    /\ pending' = NoWrite
    /\ NoHwStep
    /\ UNCHANGED <<saadcVars, streamVars, tempVars>>
    /\ UNCHANGED <<preempted, variant, ppiBlock, tokens, irqTokens, chen, ch_eep, fork_tep,
                   lastOp>>

\* regs.ch[P::CH].eep.write(..), the store
StoreEep ==
    /\ pending.reg = "ch.eep"
    /\ ch_eep' = WriteEndpoint(ch_eep, pending.ch, pending.addr)
    /\ wired' = [wired EXCEPT ![pending.ch].event = pending.arg]
    /\ pending' = NoWrite
    /\ NoHwStep
    /\ UNCHANGED <<saadcVars, streamVars, tempVars>>
    /\ UNCHANGED <<preempted, variant, ppiBlock, tokens, irqTokens, chen, ch_tep, fork_tep,
                   lastOp>>

\* regs.fork[P::CH].tep.write(..), the store
StoreForkTep ==
    /\ pending.reg = "fork.tep"
    /\ fork_tep' = WriteEndpoint(fork_tep, pending.ch, pending.addr)
    /\ wired' = [wired EXCEPT ![pending.ch].fork = pending.arg]
    /\ pending' = NoWrite
    /\ NoHwStep
    /\ UNCHANGED <<saadcVars, streamVars, tempVars>>
    /\ UNCHANGED <<preempted, variant, ppiBlock, tokens, irqTokens, chen, ch_eep, ch_tep,
                   lastOp>>

\* the tasks the interconnect triggers when the event at address e is raised:
\* of every enabled channel whose event endpoint is e, the task endpoint and
\* the fork task endpoint, when they hold the address of a task register
Routed(e) ==
    {t \in AllTasks : \E ch \in chen :
        /\ ch_eep[ch] = e
        /\ (ch_tep[ch] = t \/ fork_tep[ch] = t)}

\* the hardware raises an event; the interconnect triggers the tasks wired to
\* it within this step, with no software step in between
HwEvent(e) ==
    /\ fired' = e
    /\ triggered' = Routed(e)
    /\ UNCHANGED <<saadcVars, streamVars, tempVars>>
    /\ UNCHANGED <<preempted, variant, ppiBlock, tokens, irqTokens, chen, ch_eep, ch_tep,
                   fork_tep, pending, wired, lastOp>>


(***************************************************************************)
(* SAADC: buffers and the DMA slice.                                       *)
(***************************************************************************)
\* crate::target_constants::EASY_DMA_SIZE, the hardware's maximum DMA length
\* (the value of the nRF52832: (1 << 8) - 1)
EASY_DMA_SIZE == 255

Buffers == 1..NumBuffers

\* the number of elements of each buffer of the application; buffer 2 exceeds
\* the DMA limit, buffer 4 is the longest one that does not; any further buffer
\* is as long as buffer 2
BufElems(b) == CASE b = 1 -> 2
                 [] b = 2 -> 128
                 [] b = 3 -> 1
                 [] b = 4 -> 127
                 [] OTHER -> 128

\* core::mem::size_of::<WB::Word>() of a buffer of i16 samples
WordSize(b) == 2

\* the address of the local `val` of OneShot::read
StackVal == 0

\* the size of one sample, the unit of result.maxcnt and result.amount:
\* OneShot::read sets maxcnt to 1 for the one i16 `val` the hardware writes
SampleBytes == 2

\* wb_to_dma_slice: ptr is the buffer's address, len its length in elements
\* times the size of an element
wb_to_dma_slice(b) == [ptr |-> b, len |-> BufElems(b) * WordSize(b)]

\* rx_dma.len as usize > EASY_DMA_SIZE
TooLong(rx_dma) == rx_dma.len > EASY_DMA_SIZE

NoXfer == [live |-> FALSE, rx_buffer |-> 0, next_queued |-> FALSE]
NoRet == [op |-> "none", err |-> "none", buf |-> 0, handle |-> FALSE,
          engine |-> "none", fresh |-> FALSE, done |-> FALSE]

\* a DmaSlice for the steps that write neither result.ptr nor result.maxcnt
NoSlice == [ptr |-> 0, len |-> 0]

\* the configuration registers Saadc::new writes
ConfigRegs == {"resolution", "oversample", "samplerate", "ch0.config", "ch0.pseln"}

\* the registers of the SAADC and its hardware after a reset
ResetRegs == [enable |-> FALSE, config |-> {}, ptr |-> 0, maxcnt |-> 0, amount |-> 0,
              events_end |-> FALSE, events_started |-> FALSE,
              events_calibratedone |-> FALSE]
ResetHw == [start |-> FALSE, run |-> FALSE, buf |-> 0, cnt |-> 0, cal |-> FALSE]

(***************************************************************************)
(* SAADC: fences and register accesses, in program order.                  *)
(***************************************************************************)
\* the effect of one step on the registers; a fence, a read and the write of a
\* task register leave them as they are
ApplyStep(r, s, rx) ==
    CASE s = "enable.enabled"       -> [r EXCEPT !.enable = TRUE]
      [] s = "enable.disabled"      -> [r EXCEPT !.enable = FALSE]
      [] s \in ConfigRegs           -> [r EXCEPT !.config = @ \cup {s}]
      [] s = "result.ptr"           -> [r EXCEPT !.ptr = rx.ptr]
      [] s = "result.maxcnt"        -> [r EXCEPT !.maxcnt = rx.len]
      [] s = "events_end.clear"     -> [r EXCEPT !.events_end = FALSE]
      [] s = "events_started.clear" -> [r EXCEPT !.events_started = FALSE]
      [] OTHER                      -> r

RECURSIVE Exec(_, _, _)
\* the registers after the steps were executed one after the other
Exec(r, steps, rx) ==
    IF steps = <<>> THEN r
    ELSE Exec(ApplyStep(r, Head(steps), rx), Tail(steps), rx)

\* the steps write 1 to the task register t
Triggers(steps, t) == \E i \in DOMAIN steps : steps[i] = t

\* the places of step s in a sequence of steps
At(steps, s) == {i \in DOMAIN steps : steps[i] = s}

\* Saadc::new: enable, the configuration, then tasks_calibrateoffset
new_steps ==
    <<"enable.enabled", "resolution", "oversample", "samplerate", "ch0.config",
      "ch0.pseln", "tasks_calibrateoffset">>

\* a constructor that does not await the calibration
CalibrationNotAwaited == TRUE

\* Saadc::new, the exit of `while saadc.events_calibratedone.read().bits() == 0 {}`
new_poll_done == regs.events_calibratedone

\* Saadc::set_dma_values: fence, result.ptr, result.maxcnt, fence
set_dma_values_steps == <<"fence", "result.ptr", "result.maxcnt", "fence">>

\* a start trigger written ahead of the pointer, the length and the clear of
\* events_end
StartTriggerFirst ==
    <<"fence", "tasks_start">> \o set_dma_values_steps \o <<"events_end.clear", "fence">>

\* Saadc::start_adc_dma_transfer: fence, set_dma_values, the clear of
\* events_end, tasks_start, fence; events_started is not touched
start_adc_dma_transfer_steps ==
    <<"fence">> \o set_dma_values_steps \o <<"events_end.clear", "tasks_start", "fence">>

\* the amount read ahead of the fence
AmountReadBeforeFence == <<"events_end.clear", "result.amount.read", "fence">>

\* the completion flag left set
EndNotCleared == <<"fence", "result.amount.read">>

\* Saadc::complete_adc_dma_transfer: the clear of events_end, fence, the read
\* of result.amount
complete_adc_dma_transfer_steps == <<"events_end.clear", "fence", "result.amount.read">>

\* Transfer::wait up to its poll loop: fence (self.inner.take() touches no
\* register)
wait_steps == <<"fence">>

\* a Drop that disables the peripheral whether or not inner was taken
DropDisablesAlways(inner) == <<"fence", "enable.disabled">>

\* impl Drop for Transfer: `if let Some(inner) = self.inner.take()`: fence, then
\* enable is written disabled; nothing when wait() has taken inner
drop_steps(inner) == IF inner = "Some" THEN <<"fence", "enable.disabled">> ELSE <<>>

\* the state after Saadc::new: the peripheral is enabled, configured and
\* calibrated, the application holds the handle and all its buffers
InitSaadc ==
    /\ saadcAt = "app"
    /\ bufAt = [b \in Buffers |-> "app"]
    /\ xfer = NoXfer
    /\ appPc = "idle"
    /\ exchBuf = 0
    /\ regs = [ResetRegs EXCEPT !.enable = TRUE, !.config = ConfigRegs,
                                !.events_calibratedone = TRUE]
    /\ hw = ResetHw
    /\ curStarted = FALSE
    /\ ret = [NoRet EXCEPT !.op = "new", !.handle = TRUE]
    /\ trace = new_steps \o <<"events_calibratedone.read">>
    /\ nTransfers = 0
    /\ lastStep = "new"

\* the state before Saadc::new: the application holds the SAADC register
\* block in its reset state
InitNew ==
    /\ saadcAt = "periph"
    /\ bufAt = [b \in Buffers |-> "app"]
    /\ xfer = NoXfer
    /\ appPc = "idle"
    /\ exchBuf = 0
    /\ regs = ResetRegs
    /\ hw = ResetHw
    /\ curStarted = FALSE
    /\ ret = NoRet
    /\ trace = <<>>
    /\ nTransfers = 0
    /\ lastStep = "reset"

(***************************************************************************)
(* SAADC: the engine.                                                      *)
(***************************************************************************)
\* Saadc::new up to its poll loop: the peripheral is enabled and configured
\* and the offset calibration is triggered
NewCall ==
    /\ appPc = "idle"
    /\ saadcAt = "periph"
    /\ regs' = Exec(regs, new_steps, NoSlice)
    /\ hw' = [hw EXCEPT !.cal = @ \/ Triggers(new_steps, "tasks_calibrateoffset")]
    /\ saadcAt' = "new"
    /\ appPc' = "new"
    /\ trace' = new_steps
    /\ lastStep' = "new_call"
    /\ UNCHANGED <<bufAt, xfer, exchBuf, curStarted, ret, nTransfers>>
    /\ UNCHANGED <<ppiVars, streamVars, tempVars>>

\* the hardware finishes the offset calibration and raises
\* EVENTS_CALIBRATEDONE
HwCalibrateDone ==
    /\ regs.enable
    /\ hw.cal
    /\ hw' = [hw EXCEPT !.cal = FALSE]
    /\ regs' = [regs EXCEPT !.events_calibratedone = TRUE]
    /\ lastStep' = "hw_calibratedone"
    /\ UNCHANGED <<saadcAt, bufAt, xfer, appPc, exchBuf, curStarted, ret, trace,
                   nTransfers>>
    /\ UNCHANGED <<ppiVars, streamVars, tempVars>>

\* Saadc::new from the end of its poll loop: Saadc { periph, pin } is returned
NewReturn ==
    /\ appPc = "new"
    /\ new_poll_done
    /\ saadcAt' = "app"
    /\ appPc' = "idle"
    /\ ret' = [NoRet EXCEPT !.op = "new", !.handle = TRUE]
    /\ trace' = trace \o <<"events_calibratedone.read">>
    /\ lastStep' = "new"
    /\ UNCHANGED <<bufAt, xfer, exchBuf, regs, hw, curStarted, nTransfers>>
    /\ UNCHANGED <<ppiVars, streamVars, tempVars>>

\* Saadc::set_dma_values: result.ptr and result.maxcnt
set_dma_values(r, rx) == Exec(r, set_dma_values_steps, rx)

\* Saadc::start_adc_dma_transfer, the registers: set_dma_values, then
\* events_end is cleared; events_started is not touched
start_adc_dma_transfer(r, rx) == Exec(r, start_adc_dma_transfer_steps, rx)

\* Saadc::complete_adc_dma_transfer: Err(Receive) when result.amount differs
\* from the requested length
complete_adc_dma_transfer(amount, rx) ==
    IF amount # rx.len THEN "Receive" ELSE "Ok"

\* Transfer::wait: `.complete_adc_dma_transfer(..).ok();` turns the Result into
\* an Option that is dropped: wait returns (RxB, Saadc) whatever the engine said
wait_error(engine) == "none"

\* a by-value `self` that could be used while a Transfer holds it
SaadcAliased == saadcAt \in {"app", "transfer"}

\* the receiver `mut self` of dma_transfer and `&mut self` of read: the
\* application has the Saadc value, which no Transfer holds
AppOwnsSaadc == saadcAt = "app"

\* Saadc::dma_transfer
DmaTransfer(b) ==
    /\ appPc = "idle"
    /\ AppOwnsSaadc
    /\ bufAt[b] = "app"
    /\ LET rx_dma == wb_to_dma_slice(b) IN
       IF TooLong(rx_dma)
       THEN \* Err((self, Error::RxBufferTooLong)): rx_buffer is not part of
            \* the error value and is dropped
            /\ bufAt' = [bufAt EXCEPT ![b] = "lost"]
            /\ ret' = [NoRet EXCEPT !.op = "dma_transfer",
                                    !.err = "RxBufferTooLong", !.handle = TRUE]
            /\ trace' = <<>>
            /\ UNCHANGED <<saadcAt, xfer, regs, hw, curStarted, nTransfers>>
       ELSE /\ regs' = start_adc_dma_transfer(regs, rx_dma)
            /\ hw' = [hw EXCEPT !.start = @ \/ Triggers(start_adc_dma_transfer_steps,
                                                       "tasks_start")]
            /\ xfer' = [live |-> TRUE, rx_buffer |-> b, next_queued |-> FALSE]
            /\ saadcAt' = "transfer"
            /\ bufAt' = [bufAt EXCEPT ![b] = "transfer"]
            /\ curStarted' = FALSE
            /\ ret' = [NoRet EXCEPT !.op = "dma_transfer"]
            /\ trace' = start_adc_dma_transfer_steps
            /\ nTransfers' = nTransfers + 1
    /\ lastStep' = "dma_transfer"
    /\ UNCHANGED <<appPc, exchBuf>>
    /\ UNCHANGED <<ppiVars, streamVars, tempVars>>

\* the hardware takes the START task: it latches result.ptr and result.maxcnt
\* and raises EVENTS_STARTED
HwStarted ==
    /\ regs.enable
    /\ hw.start
    /\ hw' = [hw EXCEPT !.start = FALSE, !.run = TRUE, !.buf = regs.ptr,
                        !.cnt = regs.maxcnt]
    /\ regs' = [regs EXCEPT !.events_started = TRUE]
    /\ curStarted' = (curStarted \/ (xfer.live /\ regs.ptr = xfer.rx_buffer))
    /\ lastStep' = "hw_started"
    /\ UNCHANGED <<saadcAt, bufAt, xfer, appPc, exchBuf, ret, trace, nTransfers>>
    /\ UNCHANGED <<ppiVars, streamVars, tempVars>>

\* the amounts the hardware may report at END: the latched maximum when the
\* buffer was filled, less when the STOP task ended the transfer early
EndAmounts == {hw.cnt} \cup (IF hw.cnt > 0 THEN {hw.cnt - 1} ELSE {})

\* EVENTS_END triggers TASKS_START again only through the interconnect: when an
\* enabled channel routes the one to the other (the SAADC has no shortcut
\* between the two, and the driver writes tasks_start in dma_transfer and in
\* read alone)
EndRestarts ==
    \E ch \in chen :
        /\ ch_eep[ch] = saadc_EVENTS_END
        /\ (ch_tep[ch] = saadc_TASKS_START \/ fork_tep[ch] = saadc_TASKS_START)

\* the hardware ends the transfer: it reports the amount and raises EVENTS_END
HwEnd(amt) ==
    /\ regs.enable
    /\ hw.run
    /\ amt \in EndAmounts
    /\ hw' = [hw EXCEPT !.run = FALSE, !.start = @ \/ EndRestarts]
    /\ regs' = [regs EXCEPT !.events_end = TRUE, !.amount = amt]
    /\ lastStep' = "hw_end"
    /\ UNCHANGED <<saadcAt, bufAt, xfer, appPc, exchBuf, curStarted, ret, trace,
                   nTransfers>>
    /\ UNCHANGED <<ppiVars, streamVars, tempVars>>

\* a poll loop that gives up without having seen the flag
PollGivesUp == TRUE

\* Saadc::is_adc_dma_transfer_complete
is_adc_dma_transfer_complete == regs.events_end

\* Transfer::wait, up to its poll loop: inner is taken out of the Transfer
WaitCall ==
    /\ appPc = "idle"
    /\ xfer.live
    /\ appPc' = "wait"
    /\ trace' = wait_steps
    /\ lastStep' = "wait_call"
    /\ UNCHANGED <<saadcAt, bufAt, xfer, exchBuf, regs, hw, curStarted, ret,
                   nTransfers>>
    /\ UNCHANGED <<ppiVars, streamVars, tempVars>>

\* Transfer::wait from the end of its poll loop: the read of events_end that
\* ends the loop, complete_adc_dma_transfer, and the Drop of the Transfer,
\* whose inner was taken
wait_return_steps ==
    <<"events_end.read">> \o complete_adc_dma_transfer_steps \o drop_steps("None")

\* Transfer::wait, from the end of its poll loop: complete_adc_dma_transfer,
\* then (inner.rx_buffer, inner.saadc) is returned
WaitReturn ==
    /\ appPc = "wait"
    /\ is_adc_dma_transfer_complete
    /\ LET engine == complete_adc_dma_transfer(regs.amount,
                                               wb_to_dma_slice(xfer.rx_buffer)) IN
       ret' = [NoRet EXCEPT !.op = "wait", !.err = wait_error(engine),
                            !.buf = xfer.rx_buffer, !.handle = TRUE,
                            !.engine = engine]
    /\ regs' = Exec(regs, wait_return_steps, NoSlice)
    /\ trace' = trace \o wait_return_steps
    /\ bufAt' = [bufAt EXCEPT ![xfer.rx_buffer] = "app"]
    /\ saadcAt' = "app"
    /\ xfer' = NoXfer
    /\ nTransfers' = nTransfers - 1
    /\ appPc' = "idle"
    /\ curStarted' = FALSE
    /\ lastStep' = "wait"
    /\ UNCHANGED <<exchBuf, hw>>
    /\ UNCHANGED <<ppiVars, streamVars, tempVars>>

\* a Transfer that forgets that a next buffer is enqueued
NothingEverQueued == FALSE

\* Transfer::enqueue_next_transfer, `if inner.next_queued`
inner_next_queued == xfer.next_queued

\* an enqueue that does not look at the flag
StartedNotChecked == TRUE

\* Transfer::enqueue_next_transfer, `let started = ..events_started.read()
\* .events_started().bit_is_set()`
started == regs.events_started

\* an enqueue that clears the completion flag as a start does
EnqueueClearsEnd ==
    <<"events_started.read", "events_started.clear">>
        \o set_dma_values_steps \o <<"events_end.clear">>

\* Transfer::enqueue_next_transfer when events_started was read set: the flag
\* is cleared, then set_dma_values (inner.next_queued = true touches no
\* register)
enqueue_next_transfer_steps ==
    <<"events_started.read", "events_started.clear">> \o set_dma_values_steps

\* Transfer::enqueue_next_transfer
EnqueueNextTransfer(b) ==
    /\ appPc = "idle"
    /\ xfer.live
    /\ bufAt[b] = "app"
    /\ LET rx_dma == wb_to_dma_slice(b)
           failed(e, steps) ==
               /\ ret' = [NoRet EXCEPT !.op = "enqueue_next_transfer",
                                       !.err = e, !.buf = b,
                                       !.fresh = curStarted]
               /\ trace' = steps
               /\ UNCHANGED <<bufAt, xfer, regs, hw>>
           enqueued == enqueue_next_transfer_steps
       IN
       IF TooLong(rx_dma) THEN failed("RxBufferTooLong", <<>>)
       ELSE IF inner_next_queued THEN failed("NextTransferAlreadyEnqueued", <<>>)
       ELSE IF started
       THEN /\ regs' = Exec(regs, enqueued, rx_dma)
            /\ hw' = [hw EXCEPT !.start = @ \/ Triggers(enqueued, "tasks_start")]
            /\ xfer' = [xfer EXCEPT !.next_queued = TRUE]
            /\ bufAt' = [bufAt EXCEPT ![b] = "pending"]
            /\ ret' = [NoRet EXCEPT !.op = "enqueue_next_transfer",
                                    !.fresh = curStarted]
            /\ trace' = enqueued
       ELSE failed("CurrentTransferStillPending", <<"events_started.read">>)
    /\ lastStep' = "enqueue_next_transfer"
    /\ UNCHANGED <<saadcAt, appPc, exchBuf, curStarted, nTransfers>>
    /\ UNCHANGED <<ppiVars, streamVars, tempVars>>

\* Transfer::exchange_transfer_wait, up to the poll loop of self.wait()
ExchangeCall(p) ==
    /\ appPc = "idle"
    /\ xfer.live
    /\ bufAt[p] = "pending"
    /\ appPc' = "exchange_transfer_wait"
    /\ exchBuf' = p
    /\ bufAt' = [bufAt EXCEPT ![p] = "call"]
    /\ trace' = wait_steps
    /\ lastStep' = "exchange_call"
    /\ UNCHANGED <<saadcAt, xfer, regs, hw, curStarted, ret, nTransfers>>
    /\ UNCHANGED <<ppiVars, streamVars, tempVars>>

\* Transfer::exchange_transfer_wait, from the end of the poll loop: the old
\* buffer is returned beside a new Transfer that holds pending.rx_buffer
ExchangeReturn ==
    /\ appPc = "exchange_transfer_wait"
    /\ is_adc_dma_transfer_complete
    /\ LET engine == complete_adc_dma_transfer(regs.amount,
                                               wb_to_dma_slice(xfer.rx_buffer)) IN
       ret' = [NoRet EXCEPT !.op = "exchange_transfer_wait",
                            !.err = wait_error(engine),
                            !.buf = xfer.rx_buffer, !.engine = engine]
    /\ regs' = Exec(regs, wait_return_steps, NoSlice)
    /\ trace' = trace \o wait_return_steps
    /\ bufAt' = [bufAt EXCEPT ![xfer.rx_buffer] = "app", ![exchBuf] = "transfer"]
    /\ xfer' = [live |-> TRUE, rx_buffer |-> exchBuf, next_queued |-> FALSE]
    /\ curStarted' = (hw.buf = exchBuf /\ hw.run)
    /\ exchBuf' = 0
    /\ appPc' = "idle"
    /\ lastStep' = "exchange_transfer_wait"
    /\ UNCHANGED <<saadcAt, hw, nTransfers>>
    /\ UNCHANGED <<ppiVars, streamVars, tempVars>>

\* impl Drop for Transfer, on a Transfer that was not waited on: the
\* peripheral is disabled; the buffer and the handle go with the Transfer
DropTransfer ==
    /\ appPc = "idle"
    /\ xfer.live
    /\ regs' = Exec(regs, drop_steps("Some"), NoSlice)
    /\ trace' = drop_steps("Some")
    /\ bufAt' = [bufAt EXCEPT ![xfer.rx_buffer] = "lost"]
    /\ saadcAt' = "lost"
    /\ xfer' = NoXfer
    /\ nTransfers' = nTransfers - 1
    /\ curStarted' = FALSE
    /\ ret' = [NoRet EXCEPT !.op = "drop"]
    /\ lastStep' = "drop"
    /\ UNCHANGED <<appPc, exchBuf, hw>>
    /\ UNCHANGED <<ppiVars, streamVars, tempVars>>

\* a read that triggers the ADC ahead of the fence
ReadStartsBeforeFence ==
    <<"ch0.pselp", "result.ptr", "result.maxcnt", "tasks_start", "tasks_sample",
      "fence">>

\* OneShot::read up to its poll loop: ch[0].pselp, result.ptr (the address of
\* `val`), result.maxcnt (1), fence, tasks_start, tasks_sample
read_steps ==
    <<"ch0.pselp", "result.ptr", "result.maxcnt", "fence", "tasks_start",
      "tasks_sample">>

\* OneShot::read, up to its poll loop: result.ptr and result.maxcnt are set
\* for the one sample `val`, then tasks_start and tasks_sample are triggered
ReadCall ==
    /\ appPc = "idle"
    /\ AppOwnsSaadc
    /\ regs' = Exec(regs, read_steps, [ptr |-> StackVal, len |-> 1])
    /\ hw' = [hw EXCEPT !.start = @ \/ Triggers(read_steps, "tasks_start")]
    /\ appPc' = "read"
    /\ trace' = read_steps
    /\ lastStep' = "read_call"
    /\ UNCHANGED <<saadcAt, bufAt, xfer, exchBuf, curStarted, ret, nTransfers>>
    /\ UNCHANGED <<ppiVars, streamVars, tempVars>>

\* OneShot::read, from the end of its poll loop: events_end is reset, and
\* the amount must be 1
ReadReturn ==
    /\ appPc = "read"
    /\ regs.events_end
    /\ regs' = [regs EXCEPT !.events_end = FALSE]
    /\ ret' = [NoRet EXCEPT !.op = "read",
                            !.err = IF regs.amount # 1 THEN "Other" ELSE "none"]
    /\ trace' = trace \o <<"events_end.read", "events_end.clear",
                           "result.amount.read">>
                      \o (IF regs.amount # 1 THEN <<>> ELSE <<"fence">>)
    /\ appPc' = "idle"
    /\ lastStep' = "read"
    /\ UNCHANGED <<saadcAt, bufAt, xfer, exchBuf, hw, curStarted, nTransfers>>
    /\ UNCHANGED <<ppiVars, streamVars, tempVars>>

\* an is_done that clears the flag it reads
IsDoneClearsFlag == <<"events_end.read", "events_end.clear">>

\* Transfer::is_done: inner.saadc.is_adc_dma_transfer_complete(), one read of
\* events_end
is_done_steps == <<"events_end.read">>

\* Transfer::is_done
IsDone ==
    /\ appPc = "idle"
    /\ xfer.live
    /\ regs' = Exec(regs, is_done_steps, NoSlice)
    /\ ret' = [NoRet EXCEPT !.op = "is_done", !.done = is_adc_dma_transfer_complete]
    /\ trace' = is_done_steps
    /\ lastStep' = "is_done"
    /\ UNCHANGED <<saadcAt, bufAt, xfer, appPc, exchBuf, hw, curStarted, nTransfers>>
    /\ UNCHANGED <<ppiVars, streamVars, tempVars>>

\* a PendingTransfer goes out of scope: PendingTransfer has no Drop (`Should we
\* also impl drop for PendingSplit? Probably!`), so no register is written and
\* next_queued of the Transfer stays as it is; its rx_buffer is released with it
DropPending(p) ==
    /\ appPc = "idle"
    /\ bufAt[p] = "pending"
    /\ bufAt' = [bufAt EXCEPT ![p] = "lost"]
    /\ ret' = [NoRet EXCEPT !.op = "drop_pending", !.buf = p]
    /\ trace' = <<>>
    /\ lastStep' = "drop_pending"
    /\ UNCHANGED <<saadcAt, xfer, appPc, exchBuf, regs, hw, curStarted, nTransfers>>
    /\ UNCHANGED <<ppiVars, streamVars, tempVars>>

NextSaadc ==
    \/ \E b \in Buffers : DmaTransfer(b)
    \/ HwStarted
    \/ \E amt \in EndAmounts : HwEnd(amt)
    \/ WaitCall
    \/ WaitReturn
    \/ \E b \in Buffers : EnqueueNextTransfer(b)
    \/ \E p \in Buffers : ExchangeCall(p)
    \/ ExchangeReturn
    \/ IsDone
    \/ DropTransfer
    \/ \E p \in Buffers : DropPending(p)
    \/ ReadCall
    \/ ReadReturn

\* the SAADC from its reset state: Saadc::new, then the operations
NextNew ==
    \/ NewCall
    \/ HwCalibrateDone
    \/ NewReturn
    \/ NextSaadc

(***************************************************************************)
(* UARTE stream: the streaming context (nrf52-hal-common/src/               *)
(* uarte_stream.rs).                                                       *)
(***************************************************************************)
Streamers == 1..NumStreamers

\* the fields of a UarteStreamer and the halves its two rings split into:
\* tx_ring gives (tx_send, tx_recv), rx_ring gives (rx_send, rx_recv)
Parts == {"tx_send", "tx_recv", "rx_send", "rx_recv", "tx_buf", "rx_buf", "periph"}

\* the fields of Context
ContextParts == {"tx_recv", "tx_buf", "rx_send", "rx_buf", "periph"}

\* TxHandle.sender and RxHandle.receiver
HandleParts == {"tx_send", "rx_recv"}

\* the entry of fn stream_handler
stream_handler_entry == "stream_handler"

\* `&stream_handler as *const _ as usize`: the address of the place of the
\* function item the reference refers to, which is not the entry of the code
stream_handler_ref == "&stream_handler"

\* rip_and_grip with the handler installed ahead of the store of CONTEXT
InstallBeforeStore ==
    <<"split", "transmute", "context", "set_interrupt_handler", "CONTEXT",
      "unimplemented">>

\* UarteStreamer::rip_and_grip, its statements in program order: both rings
\* are split, the lifetimes are transmuted, the Context is built, CONTEXT is
\* assigned, the interrupt handler is set, and unimplemented!() panics
rip_and_grip_steps ==
    <<"split", "transmute", "context", "CONTEXT", "set_interrupt_handler",
      "unimplemented">>

\* the statement a call of rip_and_grip on streamer s executes next
NextStatement(s) == rip_and_grip_steps[stPc[s] + 1]

\* a call of rip_and_grip has executed its last statement
CallEnded(s) == stPc[s] = Len(rip_and_grip_steps)

\* the streaming state before any start: the transmit rings hold what the
\* application has pushed, the receive scratch buffers what has arrived
InitStream ==
    /\ stPc = [s \in Streamers |-> 0]
    /\ calls = <<>>
    /\ partAt = [s \in Streamers |-> [p \in Parts |-> "streamer"]]
    /\ CONTEXT = 0
    /\ handler = "none"
    /\ txRing \in [Streamers -> 0..MaxBytes]
    /\ txBuf = [s \in Streamers |-> 0]
    /\ rxBuf \in [Streamers -> 0..MaxBytes]
    /\ rxRing = [s \in Streamers |-> 0]
    /\ faulted = FALSE
    /\ lastStream = "none"

\* the streaming state beside the interconnect and the SAADC: no start, empty
\* rings
InitStreamIdle ==
    /\ InitStream
    /\ txRing = [s \in Streamers |-> 0]
    /\ rxBuf = [s \in Streamers |-> 0]

\* rip_and_grip(self) is called on a streamer the application holds: by the
\* foreground, or by an interrupt handler of the application that preempts the
\* foreground (which runs on only when that handler has returned)
RipAndGripCall(s) ==
    /\ ~faulted
    /\ stPc[s] = 0
    /\ \A i \in DOMAIN calls : calls[i] # s
    /\ Len(calls) < 2
    /\ calls' = Append(calls, s)
    /\ partAt' = [partAt EXCEPT ![s] = [p \in Parts |-> "self"]]
    /\ lastStream' = "rip_and_grip"
    /\ UNCHANGED <<stPc, CONTEXT, handler, txRing, txBuf, rxBuf, rxRing, faulted>>
    /\ UNCHANGED <<ppiVars, saadcVars, tempVars>>

\* where the parts of streamer s are after the statement st of its call
AfterStatement(s, st) ==
    CASE st = "split" ->
             [partAt[s] EXCEPT !["tx_send"] = "local", !["tx_recv"] = "local",
                               !["rx_send"] = "local", !["rx_recv"] = "local"]
      [] st = "context" ->
             [p \in Parts |-> IF p \in ContextParts THEN "context" ELSE partAt[s][p]]
      [] st = "CONTEXT" ->
             [p \in Parts |-> IF partAt[s][p] = "context" THEN "CONTEXT"
                              ELSE partAt[s][p]]
      [] st = "unimplemented" ->
             [p \in Parts |-> IF partAt[s][p] \in {"local", "self", "context"}
                              THEN "lost" ELSE partAt[s][p]]
      [] OTHER -> partAt[s]

\* the innermost running call of rip_and_grip executes its next statement;
\* the assignment of CONTEXT drops the Context that was there, and after
\* unimplemented!() the call never returns
RipAndGripStep(s) ==
    /\ ~faulted
    /\ calls # <<>>
    /\ calls[Len(calls)] = s
    /\ ~CallEnded(s)
    /\ LET st == NextStatement(s) IN
       /\ stPc' = [stPc EXCEPT ![s] = @ + 1]
       /\ partAt' = [t \in Streamers |->
                        IF t = s THEN AfterStatement(s, st)
                        ELSE IF st = "CONTEXT" /\ CONTEXT = t
                             THEN [p \in Parts |-> IF partAt[t][p] = "CONTEXT"
                                                   THEN "lost" ELSE partAt[t][p]]
                             ELSE partAt[t]]
       /\ CONTEXT' = IF st = "CONTEXT" THEN s ELSE CONTEXT
       /\ handler' = IF st = "set_interrupt_handler" THEN stream_handler_ref
                     ELSE handler
       /\ lastStream' = st
    /\ UNCHANGED <<calls, txRing, txBuf, rxBuf, rxRing, faulted>>
    /\ UNCHANGED <<ppiVars, saadcVars, tempVars>>

\* fn stream_handler: its body is empty, the bytes of the rings and of the
\* scratch buffers stay where they are
stream_handler(bytes) == bytes

\* the outcomes of an interrupt whose vector holds the address a: the code at
\* a runs; at an address that is not the entry of a function anything may
\* happen, the handler running or a fault
IrqOutcomes(a) ==
    IF a = stream_handler_entry THEN {"handler"} ELSE {"handler", "fault"}

\* the UARTE interrupt fires (the application has enabled it: rip_and_grip
\* does not) and the installed handler runs to completion
UarteIrq(outcome) ==
    /\ ~faulted
    /\ handler # "none"
    /\ outcome \in IrqOutcomes(handler)
    /\ IF outcome = "handler"
       THEN /\ LET after == stream_handler([tx_ring |-> txRing, tx_buf |-> txBuf,
                                                 rx_buf |-> rxBuf, rx_ring |-> rxRing]) IN
               /\ txRing' = after.tx_ring
               /\ txBuf' = after.tx_buf
               /\ rxBuf' = after.rx_buf
               /\ rxRing' = after.rx_ring
            /\ lastStream' = "stream_handler"
            /\ UNCHANGED faulted
       ELSE /\ faulted' = TRUE
            /\ lastStream' = "fault"
            /\ UNCHANGED <<txRing, txBuf, rxBuf, rxRing>>
    /\ UNCHANGED <<stPc, calls, partAt, CONTEXT, handler>>
    /\ UNCHANGED <<ppiVars, saadcVars, tempVars>>

NextStream ==
    \/ \E s \in Streamers : RipAndGripCall(s)
    \/ \E s \in Streamers : RipAndGripStep(s)
    \/ \E o \in {"handler", "fault"} : UarteIrq(o)

(***************************************************************************)
(* TEMP: read_temperature and the main loop of the example.                *)
(***************************************************************************)
\* the values the hardware may put into the temp register, in units of 0.25
\* degrees
TempBits == {84, 85}

NoTempRet == [call |-> 0, value |-> [whole |-> 0, quarters |-> 0], of |-> 0]

\* `(temp.temp.read().bits() as f32) * 0.25`: the quarters of a degree as
\* degrees
ToCelsius(bits) == [whole |-> bits \div 4, quarters |-> bits % 4]

\* the state main starts in: TEMP after reset, nothing measured
InitTemp ==
    /\ tempPc = "loop"
    /\ nReads = 0
    /\ tempRegs = [events_datardy |-> FALSE, temp |-> 0]
    /\ tempHw = [run |-> FALSE, of |-> 0]
    /\ tempOf = 0
    /\ tempRet = NoTempRet
    /\ lastTemp = "reset"

\* read_temperature, `temp.tasks_start.write(|w| w.bits(1))`: a measurement
\* begins; when one is still running the START either is ignored or begins
\* the measurement anew. No register is cleared.
ReadTemperatureCall(restart) ==
    /\ tempPc = "loop"
    /\ nReads < MaxReads
    /\ nReads' = nReads + 1
    /\ tempHw' = IF tempHw.run /\ ~restart THEN tempHw
                 ELSE [run |-> TRUE, of |-> nReads + 1]
    /\ (restart => tempHw.run)
    /\ tempPc' = "poll"
    /\ lastTemp' = "tasks_start"
    /\ UNCHANGED <<tempRegs, tempOf, tempRet>>
    /\ UNCHANGED <<ppiVars, saadcVars, streamVars>>

\* the hardware finishes the measurement: the value is in temp and
\* EVENTS_DATARDY is raised
TempDataReady(bits) ==
    /\ tempHw.run
    /\ tempRegs' = [events_datardy |-> TRUE, temp |-> bits]
    /\ tempOf' = tempHw.of
    /\ tempHw' = [run |-> FALSE, of |-> 0]
    /\ lastTemp' = "hw_datardy"
    /\ UNCHANGED <<tempPc, nReads, tempRet>>
    /\ UNCHANGED <<ppiVars, saadcVars, streamVars>>

\* read_temperature, the exit of `while temp.events_datardy.read().bits() == 0 {}`
temp_poll_done == tempRegs.events_datardy

\* read_temperature from the end of its poll loop: temp is read and returned
\* in degrees
ReadTemperatureReturn ==
    /\ tempPc = "poll"
    /\ temp_poll_done
    /\ tempRet' = [call |-> nReads, value |-> ToCelsius(tempRegs.temp), of |-> tempOf]
    /\ tempPc' = "delay"
    /\ lastTemp' = "read_temperature"
    /\ UNCHANGED <<nReads, tempRegs, tempHw, tempOf>>
    /\ UNCHANGED <<ppiVars, saadcVars, streamVars>>

\* main, `del.delay_ms(1000u32)`
MainDelay ==
    /\ tempPc = "delay"
    /\ tempPc' = "write"
    /\ lastTemp' = "delay_ms"
    /\ UNCHANGED <<nReads, tempRegs, tempHw, tempOf, tempRet>>
    /\ UNCHANGED <<ppiVars, saadcVars, streamVars>>

\* main, `write!(.., "Temp is {} \n", temp)`, and the loop goes round
MainWrite ==
    /\ tempPc = "write"
    /\ tempPc' = "loop"
    /\ lastTemp' = "write"
    /\ UNCHANGED <<nReads, tempRegs, tempHw, tempOf, tempRet>>
    /\ UNCHANGED <<ppiVars, saadcVars, streamVars>>

NextTemp ==
    \/ \E restart \in BOOLEAN : ReadTemperatureCall(restart)
    \/ \E bits \in TempBits : TempDataReady(bits)
    \/ ReadTemperatureReturn
    \/ MainDelay
    \/ MainWrite

(***************************************************************************)
(* The specifications.                                                     *)
(***************************************************************************)
NextPpi ==
    \/ PartsNew
    \/ \E ch \in ModelChannels : GiveToIrq(ch)
    \/ \E ch \in ModelChannels : EnableCall(ch)
    \/ \E ch \in ModelChannels : DisableCall(ch)
    \/ StoreChenset
    \/ StoreChenclr
    \/ \E ch \in ModelChannels : IrqEnable(ch)
    \/ \E ch \in ModelChannels : IrqDisable(ch)
    \/ \E ch \in ModelChannels, t \in Tasks, s \in StackSlots :
          SetTaskEndpointCall(ch, t, s)
    \/ \E ch \in ModelChannels, e \in Events, s \in StackSlots :
          SetEventEndpointCall(ch, e, s)
    \/ \E ch \in ModelChannels, t \in ForkTasks, s \in StackSlots :
          SetForkTaskEndpointCall(ch, t, s)
    \/ StoreTep
    \/ StoreEep
    \/ StoreForkTep
    \/ \E e \in HwEvents : HwEvent(e)

\* every chip variant, the SAADC constructed
Init == InitPpi /\ InitSaadc /\ InitStreamIdle /\ InitTemp

\* an nRF52840, the SAADC constructed
Init52840 == Init /\ variant = "52840"

\* the interconnect on every chip variant, beside an idle SAADC
SpecPpi == Init /\ [][NextPpi]_vars

\* the SAADC of an nRF52840, beside an untouched interconnect
SpecSaadc == Init52840 /\ [][NextSaadc]_vars

\* the hardware goes on: a START task that was written is taken, a transfer
\* that runs ends (samples keep coming); and a poll loop that can leave, leaves
SaadcFairness ==
    /\ WF_vars(HwStarted)
    /\ WF_vars(\E amt \in EndAmounts : HwEnd(amt))
    /\ WF_vars(WaitReturn)
    /\ WF_vars(ExchangeReturn)

\* the SAADC of an nRF52840 with hardware that goes on
SpecSaadcFair == SpecSaadc /\ SaadcFairness

\* an nRF52840 whose SAADC is in its reset state, not yet constructed
InitReset == InitPpi /\ InitNew /\ InitStreamIdle /\ InitTemp /\ variant = "52840"

\* the SAADC of an nRF52840 from its reset state
SpecNew == InitReset /\ [][NextNew]_vars

\* an nRF52840 whose application chains the transfers of the SAADC
InitChained == InitPpiChained /\ InitSaadc /\ InitStreamIdle /\ InitTemp /\ variant = "52840"

\* the SAADC of an nRF52840 whose END event starts the next transfer
SpecSaadcChained == InitChained /\ [][NextSaadc]_vars

\* the temperature example on an nRF52840, beside an untouched interconnect,
\* an idle SAADC and no stream
SpecTemp == Init52840 /\ [][NextTemp]_vars

\* an nRF52840 whose application is about to start streams
InitStreaming == InitPpi /\ InitSaadc /\ InitStream /\ InitTemp /\ variant = "52840"

\* the UARTE stream, beside an untouched interconnect and an idle SAADC
SpecStream == InitStreaming /\ [][NextStream]_vars

(***************************************************************************)
(* PPI: the claims.                                                        *)
(***************************************************************************)
\* C4, as stated: on every chip variant, once the register block was split
\* there is exactly one token for each of the 32 channel indices 0..31.
C4_OneTokenForEachOf32 ==
    ppiBlock = "consumed" => \A ch \in AllChannels : tokens[ch] = 1

\* C4, amended: once the register block was split there is exactly one token
\* for each of the indices 0..31 on every variant but "51", and on "51" exactly
\* one for each of 0..15 and 20..31 and none for 16..19; before the split
\* there is none; no index ever has two tokens, and with the register block
\* consumed Parts::new cannot be called again.
C4_OneTokenPerExistingChannel ==
    /\ \A ch \in AllChannels : tokens[ch] <= 1
    /\ ppiBlock = "app" => \A ch \in AllChannels : tokens[ch] = 0
    /\ ppiBlock = "consumed" =>
          /\ \A ch \in AllChannels :
                tokens[ch] = IF variant = "51" /\ ch \in 16..19 THEN 0 ELSE 1
          /\ ~ENABLED PartsNew

\* C4, witness: the split has happened on a "51": channel 3 and the fixed
\* channel 20 have their token, channel 16 has none.
C4_SplitOn51 ==
    /\ ppiBlock = "consumed"
    /\ variant = "51"
    /\ tokens[3] = 1 /\ tokens[20] = 1 /\ tokens[16] = 0

\* C5: the value that set_task_endpoint, set_event_endpoint or
\* set_fork_task_endpoint is about to store into the channel's endpoint
\* register is the address of the task or event register that was passed in.
C5_EndpointIsRegisterAddress ==
    pending.reg \in {"ch.tep", "ch.eep", "fork.tep"} => pending.addr = pending.arg

\* C6: with channel 3's event endpoint set to E and its task endpoint set to T,
\* whenever the hardware raises E while channel 3 is enabled, T is triggered
\* in that same hardware step; while channel 3 is disabled, E's firing does not
\* trigger T through it.
C6_EventTriggersTaskInHardware ==
    \A e \in Events, t \in Tasks :
        (fired = e /\ wired[3].event = e /\ wired[3].task = t) =>
            /\ (3 \in chen /\ lastOp[3] = "enable") => t \in triggered
            /\ (3 \notin chen) => t \notin triggered

\* C7: every store of enable(N) or disable(N) writes a mask with only bit N
\* set, sets (clears) bit N, and leaves the enabled bit of every other channel
\* as it was; so does enable(N) followed by disable(N). No step of any kind
\* changes the enabled bit of more than one channel.
C7_EnableDisableTouchOnlyOwnBit ==
    [][ /\ (pending.reg \in {"chenset", "chenclr"} /\ pending'.reg = "none") =>
            /\ pending.mask = {pending.ch}
            /\ \A m \in AllChannels \ {pending.ch} : (m \in chen') <=> (m \in chen)
            /\ (pending.ch \in chen') <=> (pending.reg = "chenset")
        /\ Cardinality((chen' \ chen) \cup (chen \ chen')) <= 1
      ]_vars

\* C7, witness: disable(3) has acted (after enable(3) or on its own) while the
\* other channel, 20, is enabled: 20 is still enabled, 3 is not.
C7_DisabledBesideEnabled ==
    /\ lastOp[3] = "disable" /\ 3 \notin chen
    /\ lastOp[20] = "enable" /\ 20 \in chen
    /\ pending = NoWrite

\* C8: under every interleaving of the foreground's and the interrupt
\* handler's enable/disable calls, each channel's enabled bit is the effect of
\* the last enable/disable issued on that channel (clear when none was issued).
C8_NoLostUpdate ==
    \A ch \in AllChannels :
        (ch \in chen) <=> (lastOp[ch] = "enable")

\* C8, witness: the interrupt handler disabled channel 20 between the
\* foreground's building of the value for enable(3) and its store; both
\* calls are complete.
C8_PreemptedEnable ==
    /\ pending = NoWrite
    /\ preempted
    /\ lastOp[3] = "enable"
    /\ lastOp[20] = "disable"

\* C9: no step changes the task endpoint or the event endpoint of a fixed
\* channel (20..31), and no write to one is ever prepared; of a fixed channel
\* only the enable bit and the fork task endpoint change.
C9_FixedEndpointsNeverWritten ==
    [][ /\ \A ch \in Fixed : ch_tep'[ch] = ch_tep[ch] /\ ch_eep'[ch] = ch_eep[ch]
        /\ pending'.reg \in {"ch.tep", "ch.eep"} => pending'.ch \notin Fixed
      ]_vars

\* C9, witness: token operations have acted on the fixed channel 20: its fork
\* task endpoint was written and it is enabled.
C9_FixedChannelOperated ==
    /\ fork_tep[20] # 0
    /\ 20 \in chen
    /\ ch_tep[20] = FixedTep(20) /\ ch_eep[20] = FixedEep(20)

\* the event a channel is wired to: the preset one of a fixed channel, the one
\* passed to set_event_endpoint otherwise
EventOf(ch) == IF ch \in Fixed THEN FixedEep(ch) ELSE wired[ch].event

\* the primary task of a channel, likewise
TaskOf(ch) == IF ch \in Fixed THEN FixedTep(ch) ELSE wired[ch].task

\* C10: on a variant with fork support, on every channel, fixed or
\* configurable, once set_fork_task_endpoint(T2) was called and the channel is
\* enabled, a firing of the channel's event triggers the primary task and T2.
C10_ForkTriggersSecondTask ==
    \A ch \in ModelChannels :
        (/\ HasFork(variant)
         /\ wired[ch].fork # 0
         /\ ch \in chen
         /\ fired # 0 /\ fired = EventOf(ch)
         /\ TaskOf(ch) # 0) =>
            /\ TaskOf(ch) \in triggered
            /\ wired[ch].fork \in triggered

(***************************************************************************)
(* SAADC: the claims.                                                      *)
(***************************************************************************)
\* C1: a call of enqueue_next_transfer made before the hardware has raised
\* STARTED for the current transfer (before it latched the current buffer)
\* does not succeed; in particular not on the strength of a STARTED flag that
\* was raised for an earlier transfer or for a one-shot read.
C1_EnqueueNeedsStartedOfCurrentTransfer ==
    (ret.op = "enqueue_next_transfer" /\ ~ret.fresh) =>
        ret.err \in {"CurrentTransferStillPending", "NextTransferAlreadyEnqueued",
                     "RxBufferTooLong"}

\* C2: when wait() finds that the amount the hardware reports differs from
\* the requested length, it returns a Receive error, together with the buffer
\* and the peripheral handle.
C2_WaitReturnsReceiveOnMismatch ==
    (ret.op = "wait" /\ ret.engine = "Receive") =>
        /\ ret.err = "Receive"
        /\ ret.buf # 0
        /\ ret.handle

\* C3: a dma_transfer that ends with RxBufferTooLong hands back the
\* peripheral handle and the buffer (the application holds both afterwards)
\* and writes no register and starts nothing.
C3_TooLongHandsBackBufferAndHandle ==
    [][ \A b \in Buffers :
          (/\ appPc = "idle" /\ saadcAt = "app" /\ bufAt[b] = "app"
           /\ TooLong(wb_to_dma_slice(b))
           /\ ret'.op = "dma_transfer" /\ ret'.err = "RxBufferTooLong"
           /\ appPc' = "idle") =>
              /\ ret'.handle /\ saadcAt' = "app"
              /\ ret'.buf = b /\ bufAt'[b] = "app"
              /\ regs' = regs /\ hw' = hw
      ]_vars

\* the steps happen in this order, each of them at least once
InOrder(steps, names) ==
    \E pos \in [DOMAIN names -> DOMAIN steps] :
        /\ \A i \in DOMAIN names : steps[pos[i]] = names[i]
        /\ \A i, j \in DOMAIN names : i < j => pos[i] < pos[j]

\* C11: a successful dma_transfer executes a fence, then writes the
\* destination pointer and the length, then clears the completion flag, then
\* writes the start trigger, then executes a fence, and then returns the
\* Transfer: the start trigger is written once, after the pointer, the length
\* and the clear; a fence precedes the first of these writes and a fence
\* follows the start trigger.
C11_FenceArmClearStartFence ==
    (lastStep = "dma_transfer" /\ ret.err = "none") =>
        /\ InOrder(trace, <<"fence", "result.ptr", "events_end.clear",
                            "tasks_start", "fence">>)
        /\ InOrder(trace, <<"fence", "result.maxcnt", "events_end.clear",
                            "tasks_start", "fence">>)
        /\ \E s \in DOMAIN trace :
              /\ At(trace, "tasks_start") = {s}
              /\ \A i \in At(trace, "result.ptr") \cup At(trace, "result.maxcnt")
                            \cup At(trace, "events_end.clear") :
                    /\ i < s
                    /\ \E f \in At(trace, "fence") : f < i
        /\ xfer.live /\ saadcAt = "transfer"

\* C11, its case: dma_transfer has armed the hardware for a buffer
C11_TransferArmed ==
    /\ lastStep = "dma_transfer" /\ ret.err = "none"
    /\ xfer.live /\ regs.ptr = xfer.rx_buffer /\ hw.start

\* C12: wait() (by itself or inside exchange_transfer_wait) leaves its poll
\* loop only when the completion flag is set; after the read that found it set
\* a fence is executed, then the transferred amount is read, and then the
\* buffer is handed back.
C12_WaitReturnsAfterCompletionAndFence ==
    [][ (appPc \in {"wait", "exchange_transfer_wait"} /\ appPc' = "idle") =>
            /\ regs.events_end
            /\ InOrder(trace', <<"events_end.read", "fence", "result.amount.read">>)
            /\ \A a \in At(trace', "result.amount.read") :
                  \E f \in At(trace', "fence"), o \in At(trace', "events_end.read") :
                      o < f /\ f < a
            /\ bufAt[xfer.rx_buffer] = "transfer"
            /\ bufAt'[xfer.rx_buffer] = "app"
      ]_vars

\* C12, its case: wait() has returned the buffer of a transfer the hardware
\* completed
C12_WaitReturned ==
    /\ lastStep = "wait" /\ ret.buf # 0 /\ ret.handle
    /\ bufAt[ret.buf] = "app" /\ saadcAt = "app"

\* the buffer an enqueue_next_transfer step was called with
Offers(b) ==
    /\ lastStep' = "enqueue_next_transfer"
    /\ appPc = "idle" /\ xfer.live /\ bufAt[b] = "app"
    /\ \/ ret'.err # "none" /\ ret'.buf = b
       \/ ret'.err = "none" /\ bufAt'[b] = "pending"

\* C13, as stated: an enqueue_next_transfer on a Transfer that has a next
\* buffer enqueued fails with NextTransferAlreadyEnqueued, whatever buffer is
\* offered, returns the buffer and changes nothing.
C13_SecondEnqueueAlreadyEnqueued ==
    [][ \A b \in Buffers :
          (xfer.next_queued /\ Offers(b)) =>
              /\ ret'.err = "NextTransferAlreadyEnqueued"
              /\ ret'.buf = b /\ bufAt' = bufAt
              /\ regs' = regs /\ xfer' = xfer
      ]_vars

\* C13: an enqueue_next_transfer on a Transfer that has a next buffer enqueued
\* fails: with RxBufferTooLong when the offered buffer exceeds the DMA limit,
\* with NextTransferAlreadyEnqueued otherwise; it returns the offered buffer and
\* leaves the pointer and length registers, the 'started' flag and the enqueued
\* buffer as they are; an enqueue succeeds only on a Transfer that has nothing
\* enqueued, so at most one next buffer is enqueued per Transfer.
C13_SecondEnqueueRejected ==
    [][ \A b \in Buffers :
          /\ (xfer.next_queued /\ Offers(b)) =>
                /\ ret'.err = IF TooLong(wb_to_dma_slice(b)) THEN "RxBufferTooLong"
                              ELSE "NextTransferAlreadyEnqueued"
                /\ ret'.buf = b /\ bufAt' = bufAt
                /\ regs' = regs /\ xfer' = xfer
          /\ (Offers(b) /\ ret'.err = "none") =>
                ~xfer.next_queued /\ xfer'.next_queued
      ]_vars

\* C13, its case: a second enqueue_next_transfer was rejected on a Transfer
\* that holds one enqueued buffer
C13_SecondEnqueueHappened ==
    /\ lastStep = "enqueue_next_transfer"
    /\ ret.err = "NextTransferAlreadyEnqueued"
    /\ xfer.next_queued
    /\ \E p \in Buffers : bufAt[p] = "pending"

\* C14, as stated: an enqueue_next_transfer while the 'started' flag is clear
\* and nothing is enqueued fails with CurrentTransferStillPending, whatever
\* buffer is offered, returns the buffer and changes nothing.
C14_EnqueueBeforeStartedStillPending ==
    [][ \A b \in Buffers :
          (~regs.events_started /\ ~xfer.next_queued /\ Offers(b)) =>
              /\ ret'.err = "CurrentTransferStillPending"
              /\ ret'.buf = b /\ bufAt' = bufAt
              /\ regs' = regs /\ xfer' = xfer
      ]_vars

\* C14: an enqueue_next_transfer while the 'started' flag is clear and nothing
\* is enqueued fails: with RxBufferTooLong when the offered buffer exceeds the
\* DMA limit, with CurrentTransferStillPending otherwise; it returns the offered
\* buffer and changes neither the registers nor the 'nothing enqueued' state;
\* and an enqueue_next_transfer of a buffer within the limit made when the
\* flag is set and nothing is enqueued succeeds.
C14_EnqueueBeforeStartedRejected ==
    [][ \A b \in Buffers :
          /\ (~regs.events_started /\ ~xfer.next_queued /\ Offers(b)) =>
                /\ ret'.err = IF TooLong(wb_to_dma_slice(b)) THEN "RxBufferTooLong"
                              ELSE "CurrentTransferStillPending"
                /\ ret'.buf = b /\ bufAt' = bufAt
                /\ regs' = regs /\ xfer' = xfer
          /\ (/\ regs.events_started /\ ~xfer.next_queued /\ Offers(b)
              /\ ~TooLong(wb_to_dma_slice(b))) =>
                /\ ret'.err = "none"
                /\ bufAt'[b] = "pending" /\ xfer'.next_queued
                /\ regs'.ptr = wb_to_dma_slice(b).ptr
                /\ regs'.maxcnt = wb_to_dma_slice(b).len
      ]_vars

\* C14, its case: an enqueue_next_transfer was rejected because the hardware
\* has not raised 'started'
C14_EnqueueBeforeStartedHappened ==
    /\ lastStep = "enqueue_next_transfer"
    /\ ret.err = "CurrentTransferStillPending"
    /\ ~regs.events_started /\ ~xfer.next_queued
    /\ bufAt[ret.buf] = "app"

\* C15: with hardware that goes on, wait() on the Transfer that
\* exchange_transfer_wait returned eventually returns: the hardware continues
\* into the enqueued buffer without a start trigger of the foreground.
C15_WaitOnExchangedTransferReturns ==
    (appPc = "wait" /\ ret.op = "exchange_transfer_wait") ~> (lastStep = "wait")

\* C16: after dma_transfer of a buffer within the limit, a completion whose
\* reported amount is the requested length, and wait(), the application holds
\* that buffer and the handle; the peripheral is enabled, the completion flag
\* is clear, and a dma_transfer of the buffer on the handle would be accepted.
C16_RoundTrip ==
    (lastStep = "wait" /\ ret.engine = "Ok") =>
        /\ ret.buf \in Buffers /\ bufAt[ret.buf] = "app"
        /\ regs.amount = wb_to_dma_slice(ret.buf).len
        /\ ret.handle /\ AppOwnsSaadc /\ ~xfer.live
        /\ regs.enable
        /\ ~regs.events_end
        /\ appPc = "idle" /\ ~TooLong(wb_to_dma_slice(ret.buf))

\* C16, its case: wait() has returned after a completion with the requested
\* amount
C16_RoundTripDone ==
    /\ lastStep = "wait" /\ ret.engine = "Ok"
    /\ hw.buf = ret.buf /\ hw.cnt = wb_to_dma_slice(ret.buf).len

\* C17, as stated: in every state either the application holds the Saadc
\* value or exactly one live Transfer holds it.
C17_ExactlyOneOwner ==
    \/ saadcAt = "app" /\ nTransfers = 0
    \/ saadcAt = "transfer" /\ nTransfers = 1

\* C17: in every state at most one holds the Saadc value: the application, or
\* exactly one live Transfer, or (after a Transfer was discarded) nobody; two
\* Transfers never coexist, and a one-shot read or a dma_transfer starts only
\* when the application holds the handle and no Transfer is live.
C17_AtMostOneOwner ==
    /\ [](/\ nTransfers \in {0, 1}
          /\ (nTransfers = 1) <=> (saadcAt = "transfer")
          /\ (nTransfers = 1) <=> xfer.live
          /\ saadcAt \in {"app", "transfer", "lost"})
    /\ [][ (lastStep' \in {"dma_transfer", "read_call"}) =>
              (saadcAt = "app" /\ nTransfers = 0 /\ ~xfer.live) ]_vars

\* C17, its case: a Transfer holds the handle
C17_TransferHoldsHandle ==
    /\ saadcAt = "transfer" /\ nTransfers = 1 /\ xfer.live
    /\ lastStep = "dma_transfer"

\* C18: the discard of a Transfer that was not waited on executes a fence and
\* then disables the peripheral, and gives back neither the buffer nor the
\* handle; a Transfer consumed by wait() leaves the peripheral enabled.
C18_DropFencesAndDisables ==
    [][ /\ (lastStep' = "drop" /\ xfer.live) =>
              /\ InOrder(trace', <<"fence", "enable.disabled">>)
              /\ \A d \in At(trace', "enable.disabled") :
                    \E f \in At(trace', "fence") : f < d
              /\ ~regs'.enable
              /\ bufAt'[xfer.rx_buffer] = "lost" /\ saadcAt' = "lost"
              /\ ret'.buf = 0 /\ ~ret'.handle
        /\ (lastStep' \in {"wait", "exchange_transfer_wait"} /\ appPc # "idle") =>
              /\ regs'.enable = regs.enable
              /\ At(trace', "enable.disabled") = {}
      ]_vars

\* C18, its case: a Transfer was discarded without wait()
C18_TransferDiscarded ==
    /\ lastStep = "drop" /\ ~regs.enable
    /\ saadcAt = "lost"

\* C19: wait() returns only when the completion flag is set, however long it
\* polls; with hardware that goes on, a wait() on a transfer that is armed,
\* runs or is complete eventually returns.
C19_WaitReturnsIffCompletion ==
    /\ [][ (appPc = "wait" /\ appPc' # "wait") =>
              (regs.events_end /\ lastStep' = "wait") ]_vars
    /\ (appPc = "wait" /\ (hw.start \/ hw.run \/ regs.events_end))
           ~> (lastStep = "wait" /\ appPc = "idle")

\* C19, its case: wait() polls while the transfer runs
C19_WaitPolls ==
    /\ appPc = "wait" /\ lastStep = "wait_call"
    /\ hw.run /\ ~regs.events_end

\* C20: Saadc::new writes the configuration, then triggers the calibration,
\* and returns the handle only when it has read the calibration-done flag set:
\* no handle exists before the calibration is done.
C20_NewReturnsCalibrated ==
    /\ [][ (appPc = "new" /\ appPc' # "new") =>
              (regs.events_calibratedone /\ lastStep' = "new") ]_vars
    /\ [](/\ (lastStep = "new") =>
                /\ \A c \in ConfigRegs \cup {"enable.enabled"} :
                      InOrder(trace, <<c, "tasks_calibrateoffset",
                                       "events_calibratedone.read">>)
                /\ saadcAt = "app"
          /\ (saadcAt \in {"app", "transfer"}) =>
                /\ regs.events_calibratedone /\ ~hw.cal
                /\ regs.config = ConfigRegs)

\* C20, its case: Saadc::new has returned the handle
C20_NewReturned ==
    /\ lastStep = "new" /\ saadcAt = "app" /\ ret.op = "new" /\ ret.handle
    /\ regs.enable /\ regs.events_calibratedone

(***************************************************************************)
(* UARTE stream: the claims.                                               *)
(***************************************************************************)
\* C21: a call of rip_and_grip ends with the application holding the Producer
\* of the transmit ring and the Consumer of the receive ring, and with
\* CONTEXT holding the Consumer of the transmit ring, the Producer of the
\* receive ring, both scratch buffers and the peripheral.
C21_StartReturnsHandles ==
    \A s \in Streamers :
        (CallEnded(s) /\ CONTEXT = s) =>
            /\ \A p \in HandleParts : partAt[s][p] = "app"
            /\ \A p \in ContextParts : partAt[s][p] = "CONTEXT"

\* C22: when the stream handler has run, the transmit ring of the context is
\* drained into the transmit scratch buffer and the bytes of the receive
\* scratch buffer are pushed into the receive ring.
C22_HandlerDrainsAndRefills ==
    (lastStream = "stream_handler" /\ CONTEXT # 0) =>
        /\ txRing[CONTEXT] = 0
        /\ rxBuf[CONTEXT] = 0

\* C23: once CONTEXT has been stored, no step writes it again: it keeps the
\* Context of the first start.
C23_ContextWrittenOnce ==
    [][ (CONTEXT # 0) => (CONTEXT' = CONTEXT) ]_vars

\* C24: the interrupt handler is set only after CONTEXT was stored: whenever
\* a handler is installed, and whenever it has run, CONTEXT is not None.
C24_HandlerInstalledAfterContext ==
    (handler # "none" \/ lastStream \in {"stream_handler", "fault"}) =>
        CONTEXT # 0

\* C24, its case: the interrupt fired after a start and the handler ran
C24_HandlerRan ==
    /\ lastStream = "stream_handler"
    /\ handler # "none" /\ CONTEXT # 0

(***************************************************************************)
(* SAADC: the claims about double buffering and the DMA length.            *)
(***************************************************************************)
\* the buffers a live Transfer or PendingTransfer holds (a PendingTransfer
\* that was moved into exchange_transfer_wait included)
Held(b) == bufAt[b] \in {"transfer", "pending", "call"}

\* C28: the Transfer that exchange_transfer_wait returns owns the buffer whose
\* address is in the DMA pointer register, the one enqueue_next_transfer
\* programmed on the Transfer that was exchanged; a PendingTransfer of an
\* earlier Transfer cannot yield a Transfer of another buffer
C28_ExchangedTransferOwnsProgrammedBuffer ==
    lastStep = "exchange_transfer_wait" => (xfer.live /\ regs.ptr = xfer.rx_buffer)

\* C29: whenever the DMA pointer register of the enabled peripheral holds the
\* address of a buffer, a live Transfer or PendingTransfer holds that buffer:
\* it is neither released nor in the hands of the application
C29_ProgrammedBufferIsHeld ==
    \A b \in Buffers : (regs.enable /\ regs.ptr = b) => Held(b)

\* C30: the length dma_transfer and enqueue_next_transfer write to the length
\* register, taken in the hardware's unit of 16-bit samples, describes no more
\* bytes than the buffer of the Transfer holds
C30_LengthWithinBuffer ==
    \A b \in Buffers :
        ( /\ lastStep \in {"dma_transfer", "enqueue_next_transfer"}
          /\ ret.err = "none"
          /\ regs.ptr = b )
        => SampleBytes * regs.maxcnt <= BufElems(b) * WordSize(b)

\* C27: no completion is lost in double buffering: when the hardware has
\* completed the enqueued transfer by the time exchange_transfer_wait returns
\* (it took the next buffer and ended, before or during the wait for the
\* previous transfer), the completion flag is still set for the wait() on the
\* Transfer that is returned: the clear for the previous transfer does not
\* erase it
C27_NextCompletionNotErased ==
    [][ ( /\ appPc = "exchange_transfer_wait"
          /\ appPc' = "idle"
          /\ hw.buf = exchBuf
          /\ ~hw.run )
        => regs'.events_end ]_vars

\* C31: a successful enqueue_next_transfer clears the started flag, marks the
\* Transfer as having a next buffer enqueued and writes the address and the
\* length of the next buffer between two fences; it writes neither the start
\* trigger nor the completion flag, and the Transfer keeps its own buffer,
\* which is the one a later wait() returns
C31_EnqueueProgramsNextBufferOnly ==
    [][ /\ (lastStep' = "enqueue_next_transfer" /\ ret'.err = "none") =>
              /\ ~regs'.events_started
              /\ xfer'.next_queued
              /\ \E b \in Buffers :
                    /\ bufAt[b] = "app" /\ bufAt'[b] = "pending"
                    /\ regs'.ptr = wb_to_dma_slice(b).ptr
                    /\ regs'.maxcnt = wb_to_dma_slice(b).len
              /\ InOrder(trace', <<"events_started.clear", "fence", "result.ptr",
                                   "fence">>)
              /\ InOrder(trace', <<"fence", "result.maxcnt", "fence">>)
              /\ ~Triggers(trace', "tasks_start")
              /\ ~Triggers(trace', "events_end.clear")
              /\ regs'.events_end = regs.events_end
              /\ hw' = hw
              /\ xfer'.rx_buffer = xfer.rx_buffer
        /\ (xfer.live /\ lastStep' = "wait") => ret'.buf = xfer.rx_buffer
        /\ (xfer.live /\ xfer'.live /\ lastStep' \notin {"dma_transfer",
                                                          "exchange_transfer_wait"})
              => xfer'.rx_buffer = xfer.rx_buffer
      ]_vars

\* C31, its case: wait() returns the Transfer's own buffer after a next buffer
\* was enqueued on it
C31_WaitedAfterEnqueue ==
    /\ lastStep = "wait"
    /\ ret.buf \in Buffers
    /\ \E b \in Buffers : b # ret.buf /\ bufAt[b] = "pending" /\ regs.ptr = b

\* C32: is_done() is a pure observation: it returns true exactly when the
\* completion flag is set and changes no register and nothing of the Transfer,
\* so that calls of is_done() do not alter what wait() returns; and the flag
\* it saw set stays set for the Transfer, so that the poll loop of a wait()
\* that follows can leave at once, with no further hardware event
C32_IsDoneIsPureObservation ==
    /\ [][ (lastStep' = "is_done") =>
              ( /\ ret'.done = regs.events_end
                /\ regs' = regs /\ hw' = hw
                /\ xfer' = xfer /\ bufAt' = bufAt /\ saadcAt' = saadcAt
                /\ curStarted' = curStarted /\ nTransfers' = nTransfers ) ]_vars
    /\ [][ ( /\ xfer.live /\ xfer'.live /\ regs.events_end
              /\ lastStep' \notin {"dma_transfer", "exchange_transfer_wait"} )
            => regs'.events_end ]_vars
    /\ []((appPc = "wait" /\ regs.events_end) => ENABLED WaitReturn)

\* C32, its case: is_done() has returned true on a live Transfer
C32_IsDoneReturnedTrue ==
    /\ lastStep = "is_done"
    /\ ret.done
    /\ xfer.live

(***************************************************************************)
(* PPI: the frame of the channel operations.                               *)
(***************************************************************************)
\* C33: each channel operation changes only the resource of its own channel:
\* the store of set_task_endpoint, set_event_endpoint or
\* set_fork_task_endpoint on channel N writes the TEP, the EEP or the fork TEP
\* of channel N and neither the enable mask nor an endpoint of another
\* channel nor another endpoint of channel N; enable and disable, in the
\* foreground or in the interrupt handler, change no endpoint register
C33_ChannelOperationsTouchOwnResource ==
    [][ /\ (pending.reg \in {"ch.tep", "ch.eep", "fork.tep"} /\ pending'.reg = "none") =>
              /\ chen' = chen
              /\ \A m \in AllChannels \ {pending.ch} :
                    /\ ch_tep'[m] = ch_tep[m]
                    /\ ch_eep'[m] = ch_eep[m]
                    /\ fork_tep'[m] = fork_tep[m]
              /\ (pending.reg # "ch.tep") => ch_tep' = ch_tep
              /\ (pending.reg # "ch.eep") => ch_eep' = ch_eep
              /\ (pending.reg # "fork.tep") => fork_tep' = fork_tep
              /\ (pending.reg = "ch.tep") => ch_tep'[pending.ch] = pending.addr
              /\ (pending.reg = "ch.eep") => ch_eep'[pending.ch] = pending.addr
              /\ (pending.reg = "fork.tep") => fork_tep'[pending.ch] = pending.addr
        /\ (chen' # chen \/ lastOp' # lastOp) =>
              /\ ch_tep' = ch_tep
              /\ ch_eep' = ch_eep
              /\ fork_tep' = fork_tep
      ]_vars

\* C33, its case: the task endpoint of channel 3 was stored while channel 20
\* has a fork task endpoint and both channels were enabled
C33_EndpointsOfTwoChannelsSet ==
    /\ wired[3].task # 0
    /\ wired[20].fork # 0
    /\ lastOp[3] = "enable" /\ lastOp[20] = "enable"
    /\ chen = {3, 20}
    /\ pending = NoWrite

(***************************************************************************)
(* SAADC: the blocking read.                                               *)
(***************************************************************************)
\* C34: read() programs a destination of one sample, executes a fence before
\* it triggers start and sample, returns only after it has read the
\* completion flag set, leaves the flag cleared when it returns, and returns
\* an error instead of a value whenever the amount the hardware reports is
\* not 1
C34_ReadBlocksAndChecksAmount ==
    [][ /\ (lastStep' = "read_call") =>
              /\ regs'.ptr = StackVal
              /\ regs'.maxcnt = 1
              /\ InOrder(trace', <<"result.ptr", "fence", "tasks_start">>)
              /\ InOrder(trace', <<"result.maxcnt", "fence", "tasks_sample">>)
              /\ hw'.start
        /\ (appPc = "read" /\ appPc' # "read") =>
              /\ regs.events_end
              /\ ~regs'.events_end
              /\ lastStep' = "read"
              /\ ret'.op = "read"
              /\ (ret'.err = "none") <=> (regs.amount = 1)
              /\ InOrder(trace', <<"tasks_sample", "events_end.read",
                                   "events_end.clear", "result.amount.read">>)
      ]_vars

\* C34, its case: read() has returned an error, the hardware having reported
\* an amount other than 1
C34_ReadReturnedError ==
    /\ lastStep = "read"
    /\ ret.err = "Other"
    /\ regs.amount # 1

(***************************************************************************)
(* TEMP: the claim.                                                        *)
(***************************************************************************)
\* C35: every call of read_temperature, the second and the later ones
\* included, returns only after the data-ready event of the measurement that
\* this call started: the value it returns is that of its own measurement,
\* never one left over from an earlier one
C35_ReturnsOwnMeasurement ==
    (lastTemp = "read_temperature") =>
        /\ tempRet.of = tempRet.call
        /\ ~tempHw.run

====
